---- MODULE Spec2Model ----
(***************************************************************************)
(* State-machine model of the KnowledgeBase / Assistant pipeline of        *)
(* src/assistant.py: build, save, load, search, startup, rebuild and ask.  *)
(* Texts are sequences of runs of one character.  A vector: a dimension    *)
(* and one integer coordinate; distances are squared differences.          *)
(***************************************************************************)
EXTENDS Integers, Sequences, FiniteSets, TLC

\* ------------------------------------------------------------------ bounds
MaxDocs == 2        \* longest document list handed to build
MaxK == 3           \* largest k handed to search
MaxFaults == 1      \* failed file writes and removed sidecars in one run
MaxTextLen == 5     \* characters of a plain text handed to the segmenter
MaxChunkSize == 5   \* chunk_size of paragraph mode, in characters
MaxLines == 4       \* lines of a structured text handed to the segmenter
MaxTokens == 2      \* chunk_size of structure-aware mode, in tokens
MaxFiles == 3       \* files found in the data directory

\* ------------------------------------------------------- program constants
PreviewLen == 200           \* content[:200]
FallbackDim == 1536         \* np.random.rand(1536)
DefaultSearchK == 5         \* config.get('search_k', 5)

\* ------------------------------------------------------------------- texts
\* A text is the sequence of its runs: <<[c |-> "c", n |-> 200], [c |-> "d",
\* n |-> 1]>> is 200 times "c" followed by "d".  Adjacent runs differ in c.
Run(c, n) == [c |-> c, n |-> n]

Rep(c, n) == IF n = 0 THEN <<>> ELSE <<Run(c, n)>>

Min(a, b) == IF a <= b THEN a ELSE b

\* len(text)
RECURSIVE TLen(_)
TLen(t) == IF t = <<>> THEN 0 ELSE Head(t).n + TLen(Tail(t))

\* text[:m]
RECURSIVE TTake(_, _)
TTake(t, m) ==
    IF t = <<>> \/ m <= 0 THEN <<>>
    ELSE IF Head(t).n >= m THEN <<Run(Head(t).c, m)>>
    ELSE <<Head(t)>> \o TTake(Tail(t), m - Head(t).n)

\* a + b
TCat(a, b) ==
    IF a = <<>> THEN b
    ELSE IF b = <<>> THEN a
    ELSE IF a[Len(a)].c = b[1].c
    THEN SubSeq(a, 1, Len(a) - 1) \o <<Run(b[1].c, a[Len(a)].n + b[1].n)>> \o Tail(b)
    ELSE a \o b

Ellipsis == Rep(".", 3)

Preview_NoEllipsis(content) ==
    IF TLen(content) > PreviewLen THEN TTake(content, PreviewLen) ELSE content

\* content[:200] + '...' if len(content) > 200 else content
Preview(content) ==
    IF TLen(content) > PreviewLen
    THEN TCat(TTake(content, PreviewLen), Ellipsis)
    ELSE content

Encoders == {"cl100k_base", "unavailable"}

\* len(encoding.encode(text)): the encoder is a library outside the
\* repository; it stands here as one token for each run of equal characters
EncodedLen(text) == Len(text)

count_tokens_RoundUp(text, encoder) ==
    IF encoder = "cl100k_base" THEN EncodedLen(text) ELSE (TLen(text) + 3) \div 4

\* count_tokens: the length of the encoding, or len(text) // 4 when getting
\* the encoder or encoding raises
count_tokens(text, encoder) ==
    IF encoder = "cl100k_base" THEN EncodedLen(text) ELSE TLen(text) \div 4

TextLimit == Rep("b", PreviewLen)
TextLong == TCat(Rep("c", PreviewLen), Rep("d", 1))

\* the chunk dictionaries produced by split_text (paragraph mode)
MkChunk(text, file) ==
    [content |-> text,
     metadata |-> [source |-> file, document_title |-> file],
     tokens |-> count_tokens(text, "unavailable")]

ChunkPool == {MkChunk(TextLimit, "b.txt"), MkChunk(TextLong, "c.txt")}

\* the document lists a caller can hand to build (the empty one included)
DocLists == UNION {[1..n -> ChunkPool] : n \in 0..MaxDocs}

Queries == {Rep("q", 1)}

Models == {"text-embedding-ada-002", "text-embedding-3-large"}

\* ---------------------------------------------------- embedding provider
CharCode(ch) ==
    CASE ch = "a" -> 1
      [] ch = "b" -> 4
      [] ch = "c" -> 6
      [] ch = "q" -> 3
      [] OTHER -> 0

\* the provider's vector for a text: a deterministic function of the text
EmbedVal(text) ==
    IF text = <<>> THEN 0 ELSE (10 * CharCode(text[1].c) + TLen(text)) % 97

\* the provider's dimensionality: 1536 for text-embedding-ada-002, twice that
\* for text-embedding-3-large
ProviderDim(model) ==
    IF model = "text-embedding-ada-002" THEN FallbackDim ELSE 2 * FallbackDim

\* coordinates np.random.rand can produce
RandVals == {96}

\* the distance faiss reports next to the label -1 (no neighbour): larger than
\* every distance between two vectors
FltMax == 97 * 97

\* ------------------------------------------------------------------- state
VARIABLES
    index,            \* KnowledgeBase.index: built = FALSE is None
    chunks,           \* KnowledgeBase.chunks
    metadatas,        \* KnowledgeBase.metadatas
    embedding_model,  \* KnowledgeBase.embedding_model
    gens,             \* which assignment each of index/chunks/metadatas stems from
    config_model,     \* config['embedding']['model']
    files,            \* the four persisted files at index_path
    faults,           \* failed file writes and removed sidecars so far
    assistant,        \* the module-level assistant of api_server: "none" or "ready"
    saved,            \* the KnowledgeBase as of a save that has just completed
    ret               \* outcome of the operation that ran last

vars ==
    <<index, chunks, metadatas, embedding_model, gens, config_model, files, faults,
      assistant, saved, ret>>

\* gens tells assignments apart and nothing more: the fields written by the
\* assignment under way carry 1, the fields it has not reached carry 0, and
\* all carry 0 once it has written every field
SameSnapshot == [index |-> 0, chunks |-> 0, metadatas |-> 0]

IndexAhead == [index |-> 1, chunks |-> 0, metadatas |-> 0]

ArraysAhead == [index |-> 0, chunks |-> 1, metadatas |-> 1]

NoIndex == [built |-> FALSE, d |-> 0, vecs |-> <<>>]

\* the KnowledgeBase object as one record
KB ==
    [index |-> index, chunks |-> chunks, metadatas |-> metadatas,
     embedding_model |-> embedding_model, gens |-> gens]

\* KnowledgeBase.__init__
FreshKB(model) ==
    [index |-> NoIndex, chunks |-> <<>>, metadatas |-> <<>>,
     embedding_model |-> model,
     gens |-> SameSnapshot]

IndexSize(ix) == IF ix.built THEN Len(ix.vecs) ELSE 0

\* get_embedding: the provider's vector, or on any provider error a random
\* vector of 1536 coordinates
get_embedding(model, text, ok, r) ==
    IF ok
    THEN [dim |-> ProviderDim(model), val |-> EmbedVal(text)]
    ELSE [dim |-> FallbackDim, val |-> r]

\* -------------------------------------------------------------------- files
AbsentIndex == [exists |-> FALSE, ok |-> FALSE, d |-> 0, vecs |-> <<>>]

AbsentBin ==
    [exists |-> FALSE, ok |-> FALSE, chunks |-> <<>>, metadatas |-> <<>>,
     embedding_model |-> ""]

AbsentJson ==
    [exists |-> FALSE, ok |-> FALSE, embedding_model |-> "", total_chunks |-> 0,
     chunks |-> <<>>]

AbsentStats ==
    [exists |-> FALSE, ok |-> FALSE, total_chunks |-> 0, total_tokens |-> 0,
     sources |-> {}, document_titles |-> {}, headers |-> {}]

NoFiles ==
    [index |-> AbsentIndex, bin |-> AbsentBin, json |-> AbsentJson,
     stats |-> AbsentStats]

FileNames == {"index", "bin", "json", "stats"}

\* a file a failed write left behind: it exists and cannot be read back
Unreadable(name) == [NoFiles[name] EXCEPT !.exists = TRUE]

\* a write that fails leaves the file it opened truncated
FailedWrite(f, name) == [f EXCEPT ![name] = Unreadable(name)]

\* metadata.get(key, 'unknown')
MetaGet(md, key) == IF key \in DOMAIN md THEN md[key] ELSE "unknown"

RECURSIVE SumTokens(_)
SumTokens(cs) == IF cs = <<>> THEN 0 ELSE Head(cs).tokens + SumTokens(Tail(cs))

\* the frequency table of one metadata key, as (name, count) pairs
CountTable(cs, key) ==
    {<<n, Cardinality({i \in 1..Len(cs) : MetaGet(cs[i].metadata, key) = n})>> :
        n \in {MetaGet(cs[i].metadata, key) : i \in 1..Len(cs)}}

\* the file save_metadata_to_file writes (the timestamp is left out)
save_metadata_to_file(k) ==
    [exists |-> TRUE, ok |-> TRUE,
     embedding_model |-> k.embedding_model,
     total_chunks |-> Len(k.chunks),
     chunks |-> [i \in 1..Len(k.chunks) |->
                    [chunk_id |-> i - 1,
                     content_preview |-> Preview(k.chunks[i].content),
                     tokens |-> k.chunks[i].tokens,
                     metadata |-> k.chunks[i].metadata]]]

\* the file save_metadata_statistics writes (the timestamp is left out)
save_metadata_statistics(k) ==
    [exists |-> TRUE, ok |-> TRUE,
     total_chunks |-> Len(k.chunks),
     total_tokens |-> SumTokens(k.chunks),
     sources |-> CountTable(k.chunks, "source"),
     document_titles |-> CountTable(k.chunks, "document_title"),
     headers |-> CountTable(k.chunks, "header")]

\* pickle.dump of {chunks, metadatas, embedding_model}
PickleDump(k) ==
    [exists |-> TRUE, ok |-> TRUE, chunks |-> k.chunks, metadatas |-> k.metadatas,
     embedding_model |-> k.embedding_model]

\* faiss.write_index
WriteIndex(ix) == [exists |-> TRUE, ok |-> TRUE, d |-> ix.d, vecs |-> ix.vecs]

IOFailures == {"none", "mkdir", "index", "bin", "json", "stats", "json+stats"}

\* save_to_file past its guard: an I/O error in makedirs, write_index or the
\* pickle dump propagates, one in the two JSON writers is caught inside them
WriteFiles(k, f, io) ==
    IF io = "mkdir" THEN [raised |-> "OSError", files |-> f]
    ELSE IF io = "index"
    THEN [raised |-> "OSError", files |-> FailedWrite(f, "index")]
    ELSE LET f1 == [f EXCEPT !.index = WriteIndex(k.index)] IN
    IF io = "bin"
    THEN [raised |-> "OSError", files |-> FailedWrite(f1, "bin")]
    ELSE LET f2 == [f1 EXCEPT !.bin = PickleDump(k)]
             f3 == IF io \in {"json", "json+stats"}
                   THEN FailedWrite(f2, "json")
                   ELSE [f2 EXCEPT !.json = save_metadata_to_file(k)]
             f4 == IF io \in {"stats", "json+stats"}
                   THEN FailedWrite(f3, "stats")
                   ELSE [f3 EXCEPT !.stats = save_metadata_statistics(k)]
         IN  [raised |-> "", files |-> f4]

save_to_file_NoGuard(k, f, io) == WriteFiles(k, f, io)

\* save_to_file: raises before touching any file when the index is None
save_to_file(k, f, io) ==
    IF ~k.index.built THEN [raised |-> "NotBuilt", files |-> f] ELSE WriteFiles(k, f, io)

\* the chunks load_from_file rebuilds from the diagnostic JSON
ChunksFromJson(j) ==
    [i \in 1..Len(j.chunks) |->
        [content |-> j.chunks[i].content_preview,
         metadata |-> j.chunks[i].metadata,
         tokens |-> j.chunks[i].tokens]]

RestoreFromPickle_NoMetadatas(k, b) ==
    [k EXCEPT !.chunks = b.chunks,
              !.embedding_model = b.embedding_model,
              !.gens = SameSnapshot]

\* the three assignments of load_from_file from the unpickled dictionary
RestoreFromPickle(k, b) ==
    [k EXCEPT !.chunks = b.chunks,
              !.metadatas = b.metadatas,
              !.embedding_model = b.embedding_model,
              !.gens = SameSnapshot]

\* the assignments of load_from_file from the diagnostic JSON
RestoreFromJson(k, j) ==
    LET cs == ChunksFromJson(j) IN
    [k EXCEPT !.chunks = cs,
              !.metadatas = [i \in 1..Len(cs) |-> cs[i].metadata],
              !.embedding_model = j.embedding_model,
              !.gens = SameSnapshot]

\* load_from_file: the index is assigned as soon as it is read; the binary
\* sidecar is tried when it exists, the diagnostic JSON only when it does not
load_from_file(k, f) ==
    IF ~f.index.exists THEN [result |-> FALSE, kb |-> k]
    ELSE IF ~f.index.ok THEN [result |-> FALSE, kb |-> k]
    ELSE LET k1 == [k EXCEPT !.index = [built |-> TRUE, d |-> f.index.d,
                                        vecs |-> f.index.vecs],
                             !.gens = IndexAhead]
         IN
    IF f.bin.exists
    THEN IF f.bin.ok
         THEN [result |-> TRUE, kb |-> RestoreFromPickle(k1, f.bin)]
         ELSE [result |-> FALSE, kb |-> k1]
    ELSE IF f.json.exists
    THEN IF f.json.ok
         THEN [result |-> TRUE, kb |-> RestoreFromJson(k1, f.json)]
         ELSE [result |-> FALSE, kb |-> k1]
    ELSE [result |-> FALSE, kb |-> k1]

\* ------------------------------------------------------------------- search
Dist(a, b) == (a - b) * (a - b)

\* the rankings IndexFlatL2.search can return for the m nearest of vecs:
\* ascending distance, equal distances in either order
Rankings(vecs, q, m) ==
    {s \in [1..m -> 1..Len(vecs)] :
        /\ \A i, j \in 1..m : i /= j => s[i] /= s[j]
        /\ \A i \in 1..m : i < m => Dist(vecs[s[i]], q) <= Dist(vecs[s[i + 1]], q)
        /\ \A j \in 1..Len(vecs) :
              (\A i \in 1..m : s[i] /= j) =>
                  \A i \in 1..m : Dist(vecs[s[i]], q) <= Dist(vecs[j], q)}

\* list[idx] of Python for idx >= -1, as a position 1..Len
PyPos(len, idx) == IF idx >= 0 THEN idx + 1 ELSE len + idx + 1

\* the loop of search over the labels faiss returned: a label passes the
\* test idx < len(chunks) or is skipped
Collect(k, labels, dists) ==
    LET keep == SelectSeq([i \in 1..Len(labels) |-> i],
                          LAMBDA i : labels[i] < Len(k.chunks))
        bad == \E i \in 1..Len(keep) :
                  LET p == PyPos(Len(k.metadatas), labels[keep[i]])
                  IN  p < 1 \/ p > Len(k.metadatas)
    IN  IF bad
        THEN [raised |-> "IndexError", results |-> <<>>]
        ELSE [raised |-> "",
              results |-> [i \in 1..Len(keep) |->
                  [content |-> k.chunks[PyPos(Len(k.chunks), labels[keep[i]])].content,
                   metadata |-> k.metadatas[PyPos(Len(k.metadatas), labels[keep[i]])],
                   distance |-> dists[keep[i]]]]]

\* search past its guard: the query is embedded, faiss ranks the vectors and
\* the labels are turned into results
SearchIndex(k, query, n, ok, r) ==
    LET q == get_embedding(k.embedding_model, query, ok, r)
        kk == Min(n, Len(k.chunks))
        m == Min(kk, Len(k.index.vecs))
    IN  IF q.dim /= k.index.d
        THEN {[raised |-> "AssertionError", results |-> <<>>, labels |-> <<>>,
               embedCalls |-> 1]}
        ELSE {LET labels == [i \in 1..kk |-> IF i <= m THEN s[i] - 1 ELSE -1]
                  dists == [i \in 1..kk |->
                               IF i <= m THEN Dist(k.index.vecs[s[i]], q.val) ELSE FltMax]
                  c == Collect(k, labels, dists)
              IN  [raised |-> c.raised, results |-> c.results, labels |-> labels,
                   embedCalls |-> 1] : s \in Rankings(k.index.vecs, q.val, m)}

search_EmbedFirst(k, query, n, ok, r) ==
    IF ~k.index.built \/ Len(k.chunks) = 0
    THEN {[raised |-> "", results |-> <<>>, labels |-> <<>>, embedCalls |-> 1]}
    ELSE SearchIndex(k, query, n, ok, r)

\* search: every outcome of search(query, n) on KnowledgeBase k when the
\* provider answers (ok) or fails and the fallback draws r; nothing is
\* embedded when the index is None or there are no chunks
search(k, query, n, ok, r) ==
    IF ~k.index.built \/ Len(k.chunks) = 0
    THEN {[raised |-> "", results |-> <<>>, labels |-> <<>>, embedCalls |-> 0]}
    ELSE SearchIndex(k, query, n, ok, r)

\* ---------------------------------------------------------------------- ask
NoDocumentsAnswer == "no_documents_answer"

ProcessingErrorAnswer == "processing_error_answer"

LLMOutcomes == {"error", "usage", "no_usage"}

Sources_AsDistance(results) ==
    [i \in 1..Len(results) |->
        [source |-> results[i].metadata.source,
         content_preview |-> Preview(results[i].content),
         relevance_score |-> results[i].distance]]

\* the sources list of a successful answer
Sources(results) ==
    [i \in 1..Len(results) |->
        [source |-> results[i].metadata.source,
         content_preview |-> Preview(results[i].content),
         relevance_score |-> 1 - results[i].distance]]

ask_question_NoCatch(question, s, llm) ==
    [result |-> [answer |-> "", sources |-> <<>>, tokens_used |-> 0,
                 error |-> ""],
     llmCalls |-> IF s.raised = "" /\ s.results /= <<>> THEN 1 ELSE 0,
     embedCalls |-> s.embedCalls,
     raised |-> IF s.raised /= "" THEN s.raised ELSE "APIError"]

\* ask_question, given the outcome s of its search and the outcome of the
\* chat completion: the whole body runs inside try/except Exception, so
\* nothing it raises leaves the method
ask_question(question, s, llm) ==
    IF s.raised /= ""
    THEN [result |-> [answer |-> ProcessingErrorAnswer, sources |-> <<>>,
                      tokens_used |-> 0, error |-> s.raised],
          llmCalls |-> 0, embedCalls |-> s.embedCalls, raised |-> ""]
    ELSE IF s.results = <<>>
    THEN [result |-> [answer |-> NoDocumentsAnswer, sources |-> <<>>,
                      tokens_used |-> 0, error |-> "no_documents"],
          llmCalls |-> 0, embedCalls |-> s.embedCalls, raised |-> ""]
    ELSE IF llm = "error"
    THEN [result |-> [answer |-> ProcessingErrorAnswer, sources |-> <<>>,
                      tokens_used |-> 0, error |-> "llm_error"],
          llmCalls |-> 1, embedCalls |-> s.embedCalls, raised |-> ""]
    ELSE [result |-> [answer |-> "model_text", sources |-> Sources(s.results),
                      tokens_used |-> IF llm = "usage" THEN 42 ELSE 0,
                      question |-> question],
          llmCalls |-> 1, embedCalls |-> s.embedCalls, raised |-> ""]

\* the keys POST /api/ask reads from the result with result[key]
HandlerKeys == {"answer", "question", "tokens_used", "sources"}

\* the status of POST /api/ask for a result of ask_question: a key that is
\* missing raises KeyError inside the handler's try, which answers 500
AskStatus(result) == IF HandlerKeys \subseteq DOMAIN result THEN 200 ELSE 500

\* ----------------------------------------------------------------- actions
NoRet == [op |-> "none"]

NoSaved ==
    [valid |-> FALSE, chunks |-> <<>>, metadatas |-> <<>>, embedding_model |-> "",
     size |-> 0, jsonOk |-> FALSE]

\* what a save_to_file call that returned normally has put on disk
MarkSaved(k, raised, io) ==
    IF raised = ""
    THEN [valid |-> TRUE, chunks |-> k.chunks, metadatas |-> k.metadatas,
          embedding_model |-> k.embedding_model, size |-> IndexSize(k.index),
          jsonOk |-> io \notin {"json", "json+stats"}]
    ELSE NoSaved

SetKB(k) ==
    /\ index' = k.index
    /\ chunks' = k.chunks
    /\ metadatas' = k.metadatas
    /\ embedding_model' = k.embedding_model
    /\ gens' = k.gens

UnchangedKB == UNCHANGED <<index, chunks, metadatas, embedding_model, gens>>

Init ==
    /\ index = NoIndex
    /\ chunks = <<>>
    /\ metadatas = <<>>
    /\ config_model \in Models
    /\ embedding_model = config_model
    /\ gens = SameSnapshot
    /\ files = NoFiles
    /\ faults = 0
    /\ assistant = "none"
    /\ saved = NoSaved
    /\ ret = NoRet

\* the caller takes the outcome of the operation it ran
Return ==
    /\ ret /= NoRet
    /\ ret' = NoRet
    /\ UnchangedKB
    /\ UNCHANGED <<config_model, files, faults, assistant, saved>>

\* KnowledgeBase(client, model): a new, empty object for the model the
\* configuration names at that moment
KBInit ==
    /\ ret = NoRet
    /\ \E model \in Models :
          /\ KB /= FreshKB(model)
          /\ config_model' = model
          /\ SetKB(FreshKB(model))
    /\ UNCHANGED <<files, faults, assistant, saved, ret>>

\* the first two assignments of build_from_documents
BuildAssign(k, docs) ==
    [k EXCEPT !.chunks = docs,
              !.metadatas = [i \in 1..Len(docs) |-> docs[i].metadata],
              !.gens = ArraysAhead]

BuildBegin_AssignFirst(k, docs) ==
    [raised |-> IF docs = <<>> THEN "EmptyCorpus" ELSE "", kb |-> BuildAssign(k, docs)]

\* the head of build_from_documents: the empty list raises before anything
\* is assigned
BuildBegin(k, docs) ==
    IF docs = <<>>
    THEN [raised |-> "EmptyCorpus", kb |-> k]
    ELSE [raised |-> "", kb |-> BuildAssign(k, docs)]

\* the embedding loop of build_from_documents over docs: call i succeeds or
\* falls back as oks[i] tells
Embeddings(model, docs, oks, rs) ==
    [i \in 1..Len(docs) |-> get_embedding(model, docs[i].content, oks[i], rs[i])]

\* np.array(embeddings) of lists of different lengths cannot be cast to a
\* float32 matrix
Ragged(embeddings) ==
    \E i \in 1..Len(embeddings) : embeddings[i].dim /= embeddings[1].dim

\* the index build_from_documents constructs from the collected embeddings
IndexOf(embeddings) ==
    [built |-> TRUE, d |-> embeddings[1].dim,
     vecs |-> [i \in 1..Len(embeddings) |-> embeddings[i].val]]

\* build_from_documents: chunks and metadatas are assigned, then every chunk
\* is embedded, then the index is constructed and assigned
build_from_documents(k, docs, oks, rs) ==
    LET b == BuildBegin(k, docs)
        e == Embeddings(k.embedding_model, docs, oks, rs)
    IN  IF b.raised /= ""
        THEN [raised |-> b.raised, kb |-> b.kb, embedCalls |-> 0]
        ELSE IF Ragged(e)
        THEN [raised |-> "ValueError", kb |-> b.kb, embedCalls |-> Len(e)]
        ELSE [raised |-> "",
              kb |-> [b.kb EXCEPT !.index = IndexOf(e), !.gens = SameSnapshot],
              embedCalls |-> Len(e)]

\* build_knowledge_base: nothing is built without a data directory or
\* without a collected chunk
build_knowledge_base(k, dirExists, docs, oks, rs) ==
    IF ~dirExists \/ docs = <<>>
    THEN [raised |-> "", kb |-> k, embedCalls |-> 0]
    ELSE build_from_documents(k, docs, oks, rs)

\* the outcomes of the provider over the chunks of docs
Oks(docs) == [1..Len(docs) -> BOOLEAN]

Rands(docs) == [1..Len(docs) -> RandVals]

\* the saves an operation may attempt: one that fails uses up a fault
IOChoices == IF faults < MaxFaults THEN IOFailures ELSE {"none"}

Fault(io) == IF io = "none" THEN 0 ELSE 1

\* kb.build_from_documents(docs) called directly
BuildCall ==
    /\ ret = NoRet
    /\ \E docs \in DocLists :
       \E oks \in Oks(docs), rs \in Rands(docs) :
          LET b == build_from_documents(KB, docs, oks, rs) IN
          /\ SetKB(b.kb)
          /\ ret' = [op |-> "build", n |-> Len(docs), raised |-> b.raised,
                     embedCalls |-> b.embedCalls]
    /\ saved' = NoSaved
    /\ UNCHANGED <<config_model, files, faults, assistant>>

\* kb.save_to_file(index_path) called directly
SaveCall ==
    /\ ret = NoRet
    /\ \E io \in IF index.built THEN IOChoices ELSE {"none"} :
          LET s == save_to_file(KB, files, io) IN
          /\ files' = s.files
          /\ faults' = faults + Fault(io)
          /\ saved' = MarkSaved(KB, s.raised, io)
          /\ ret' = [op |-> "save", raised |-> s.raised, io |-> io,
                     result |-> IF s.raised = "" THEN "None" ELSE "no_value"]
    /\ UnchangedKB
    /\ UNCHANGED <<config_model, assistant>>

\* kb.load_from_file(index_path) called directly
LoadCall ==
    /\ ret = NoRet
    /\ LET l == load_from_file(KB, files) IN
          /\ SetKB(l.kb)
          /\ ret' = [op |-> "load", result |-> l.result,
                     fresh |-> KB = FreshKB(config_model),
                     index |-> files.index.exists /\ files.index.ok,
                     bin |-> files.bin.exists,
                     binOk |-> files.bin.exists /\ files.bin.ok,
                     json |-> files.json.exists /\ files.json.ok]
    /\ UNCHANGED <<config_model, files, faults, assistant, saved>>

\* kb.search(query, n) called directly
SearchCall ==
    /\ ret = NoRet
    /\ \E query \in Queries, n \in 1..MaxK, ok \in BOOLEAN, r \in RandVals :
          \E s \in search(KB, query, n, ok, r) :
             ret' = [op |-> "search", n |-> n, raised |-> s.raised,
                     results |-> s.results, labels |-> s.labels,
                     embedCalls |-> s.embedCalls, view |-> gens]
    /\ saved' = NoSaved
    /\ UnchangedKB
    /\ UNCHANGED <<config_model, files, faults, assistant>>

\* POST /api/ask: assistant.ask_question(question) with search_k at its
\* default; the handlers of api_server run one at a time
AskCall ==
    /\ assistant = "ready"
    /\ ret = NoRet
    /\ \E question \in Queries, ok \in BOOLEAN, r \in RandVals, llm \in LLMOutcomes :
          \E s \in search(KB, question, DefaultSearchK, ok, r) :
             LET a == ask_question(question, s, llm) IN
             ret' = [op |-> "ask", result |-> a.result, llmCalls |-> a.llmCalls,
                     embedCalls |-> a.embedCalls, view |-> gens,
                     raised |-> a.raised, searchRaised |-> s.raised,
                     results |-> s.results,
                     llm |-> IF a.llmCalls = 1 THEN llm ELSE "none",
                     http |-> AskStatus(a.result)]
    /\ saved' = NoSaved
    /\ UnchangedKB
    /\ UNCHANGED <<config_model, files, faults, assistant>>

\* build_knowledge_base on KnowledgeBase k followed by the save both callers
\* make when there is an index: every outcome, as [raised, kb, files, io,
\* built, saved, embedCalls]
BuildAndSaveOutcome(k, dirExists, docs, oks, rs, io) ==
    LET b == build_knowledge_base(k, dirExists, docs, oks, rs)
        s == save_to_file(b.kb, files, io)
        built == dirExists /\ docs /= <<>> /\ b.raised = ""
    IN  IF b.raised /= ""
        THEN [raised |-> b.raised, kb |-> b.kb, files |-> files, io |-> "none",
              built |-> built, saved |-> FALSE, embedCalls |-> b.embedCalls]
        ELSE IF ~b.kb.index.built
        THEN [raised |-> "", kb |-> b.kb, files |-> files, io |-> "none",
              built |-> built, saved |-> FALSE, embedCalls |-> b.embedCalls]
        ELSE [raised |-> s.raised, kb |-> b.kb, files |-> s.files, io |-> io,
              built |-> built, saved |-> TRUE, embedCalls |-> b.embedCalls]

BuildAndSave(k) ==
    UNION {{BuildAndSaveOutcome(k, dirExists, docs, oks, rs, io) :
               dirExists \in BOOLEAN, oks \in Oks(docs), rs \in Rands(docs),
               io \in IOChoices} : docs \in DocLists}

\* Assistant(): a new KnowledgeBase, then build_or_load_knowledge_base; an
\* exception leaves api_server without an assistant
Startup ==
    /\ ret = NoRet
    /\ UNCHANGED config_model
    /\ LET l == load_from_file(FreshKB(config_model), files) IN
          IF files.index.exists /\ l.result
          THEN /\ SetKB(l.kb)
               /\ assistant' = "ready"
               /\ ret' = [op |-> "startup", raised |-> "", status |-> "loaded",
                          documents_count |-> Len(l.kb.chunks), embedCalls |-> 0,
                          bin |-> files.bin.exists,
                          built |-> FALSE, saved |-> FALSE]
               /\ UNCHANGED <<files, faults, saved>>
          ELSE \E o \in BuildAndSave(l.kb) :
                  /\ SetKB(IF o.raised = "" THEN o.kb ELSE FreshKB(config_model))
                  /\ assistant' = IF o.raised = "" THEN "ready" ELSE "none"
                  /\ files' = o.files
                  /\ faults' = faults + Fault(o.io)
                  /\ saved' = IF o.saved THEN MarkSaved(o.kb, o.raised, o.io) ELSE NoSaved
                  /\ ret' = [op |-> "startup", raised |-> o.raised,
                             status |-> IF o.raised /= "" THEN "failed"
                                        ELSE IF o.saved THEN "built" ELSE "empty",
                             documents_count |-> Len(o.kb.chunks),
                             embedCalls |-> o.embedCalls,
                             built |-> o.built, saved |-> o.saved]

\* POST /api/knowledge-base/rebuild: assistant.rebuild_knowledge_base()
Rebuild ==
    /\ assistant = "ready"
    /\ ret = NoRet
    /\ UNCHANGED <<config_model, assistant>>
    /\ \E o \in BuildAndSave(KB) :
          /\ SetKB(o.kb)
          /\ files' = o.files
          /\ faults' = faults + Fault(o.io)
          /\ saved' = IF o.saved THEN MarkSaved(o.kb, o.raised, o.io) ELSE NoSaved
          /\ ret' = [op |-> "rebuild", raised |-> o.raised,
                     status |-> IF o.raised /= "" THEN "failed"
                                ELSE IF o.kb.index.built THEN "success" ELSE "error",
                     documents_count |-> Len(o.kb.chunks),
                     embedCalls |-> o.embedCalls,
                     built |-> o.built, saved |-> o.saved]

RemovableFiles == {"bin", "json"}

\* somebody removes one of the metadata sidecars
EnvRemove ==
    /\ ret = NoRet
    /\ faults < MaxFaults
    /\ faults' = faults + 1
    /\ \E name \in RemovableFiles :
          /\ files[name].exists
          /\ files' = [files EXCEPT ![name] = NoFiles[name]]
    /\ UnchangedKB
    /\ UNCHANGED <<config_model, assistant, saved, ret>>

\* the Assistant as api_server drives it: startup, questions, rebuilds
Next ==
    \/ Return
    \/ Startup
    \/ Rebuild
    \/ AskCall
    \/ EnvRemove

Spec == Init /\ [][Next]_vars

\* the KnowledgeBase driven directly: build, save and load
StoreNext ==
    \/ Return
    \/ KBInit
    \/ BuildCall
    \/ SaveCall
    \/ LoadCall
    \/ EnvRemove

StoreSpec == Init /\ [][StoreNext]_vars

\* the KnowledgeBase driven directly: build and search
SearchNext ==
    \/ Return
    \/ KBInit
    \/ BuildCall
    \/ SearchCall

SearchSpec == Init /\ [][SearchNext]_vars

\* ---------------------------------------------------------------- segmenter
\* The segmenter works on plain texts: sequences of one-character strings.
IsSpace(ch) == ch \in {" ", "\n"}

RECURSIVE LStrip(_)
LStrip(t) == IF t /= <<>> /\ IsSpace(Head(t)) THEN LStrip(Tail(t)) ELSE t

RECURSIVE RStrip(_)
RStrip(t) ==
    IF t /= <<>> /\ IsSpace(t[Len(t)]) THEN RStrip(SubSeq(t, 1, Len(t) - 1)) ELSE t

\* str.strip()
Strip(t) == RStrip(LStrip(t))

\* the run-length form of a plain text
RECURSIVE ToRuns(_)
ToRuns(t) == IF t = <<>> THEN <<>> ELSE TCat(Rep(Head(t), 1), ToRuns(Tail(t)))

\* sep.join(parts)
RECURSIVE Join(_, _)
Join(parts, sep) ==
    IF parts = <<>> THEN <<>>
    ELSE IF Len(parts) = 1 THEN parts[1]
    ELSE parts[1] \o sep \o Join(Tail(parts), sep)

\* where the leftmost match of \n\s*\n in t starts and ends, <<0, 0>> if
\* there is none: \s* is greedy, so the match runs to the last newline of
\* the whitespace that follows its first newline
ParagraphBreak(t) ==
    LET ends(i) == {j \in (i + 1)..Len(t) :
                       /\ t[j] = "\n"
                       /\ \A m \in i..j : IsSpace(t[m])}
        starts == {i \in 1..Len(t) : t[i] = "\n" /\ ends(i) /= {}}
    IN  IF starts = {} THEN <<0, 0>>
        ELSE LET i == CHOOSE x \in starts : \A y \in starts : x <= y
                 j == CHOOSE x \in ends(i) : \A y \in ends(i) : y <= x
             IN  <<i, j>>

\* re.split(r'\n\s*\n', text)
RECURSIVE SplitParagraphs(_)
SplitParagraphs(t) ==
    LET b == ParagraphBreak(t) IN
    IF b = <<0, 0>> THEN <<t>>
    ELSE <<SubSeq(t, 1, b[1] - 1)>> \o SplitParagraphs(SubSeq(t, b[2] + 1, Len(t)))

IsSentenceEnd(ch) == ch \in {".", "!", "?"}

\* re.split(r'[.!?]+', paragraph): the pieces between maximal runs of
\* sentence-ending punctuation, which is not part of any piece
RECURSIVE SplitSentences(_, _)
SplitSentences(t, piece) ==
    IF t = <<>> THEN <<piece>>
    ELSE IF IsSentenceEnd(Head(t))
    THEN IF Len(t) > 1 /\ IsSentenceEnd(t[2])
         THEN SplitSentences(Tail(t), piece)
         ELSE <<piece>> \o SplitSentences(Tail(t), <<>>)
    ELSE SplitSentences(Tail(t), Append(piece, Head(t)))

\* the chunk dictionary of paragraph mode
ParagraphChunk(content, filename, encoder) ==
    [content |-> content,
     metadata |-> [source |-> filename, document_title |-> filename],
     tokens |-> count_tokens(ToRuns(content), encoder)]

Fits_HalfTheLimit(current, piece, chunk_size) ==
    2 * (Len(current) + Len(piece) + 1) <= chunk_size

\* the test that lets a paragraph or a sentence join the chunk under way
Fits(current, piece, chunk_size) ==
    Len(current) + Len(piece) + 1 <= chunk_size

\* the sentence loop of split_text, from its state [chunks, current]
RECURSIVE PackSentences(_, _, _, _, _)
PackSentences(sentences, st, chunk_size, filename, encoder) ==
    IF sentences = <<>> THEN st
    ELSE LET sentence == Strip(Head(sentences))
             rest == Tail(sentences)
         IN  IF sentence = <<>>
             THEN PackSentences(rest, st, chunk_size, filename, encoder)
             ELSE IF Fits(st.current, sentence, chunk_size)
             THEN PackSentences(rest,
                      [st EXCEPT !.current = IF st.current /= <<>>
                                             THEN st.current \o <<" ">> \o sentence
                                             ELSE sentence],
                      chunk_size, filename, encoder)
             ELSE PackSentences(rest,
                      [chunks |-> IF st.current /= <<>>
                                  THEN Append(st.chunks,
                                           ParagraphChunk(st.current, filename, encoder))
                                  ELSE st.chunks,
                       current |-> sentence],
                      chunk_size, filename, encoder)

\* the paragraph loop of split_text, from its state [chunks, current]
RECURSIVE PackParagraphs(_, _, _, _, _)
PackParagraphs(paragraphs, st, chunk_size, filename, encoder) ==
    IF paragraphs = <<>> THEN st
    ELSE LET paragraph == Strip(Head(paragraphs))
             rest == Tail(paragraphs)
             flushed == IF st.current /= <<>>
                        THEN Append(st.chunks,
                                 ParagraphChunk(st.current, filename, encoder))
                        ELSE st.chunks
         IN  IF paragraph = <<>>
             THEN PackParagraphs(rest, st, chunk_size, filename, encoder)
             ELSE IF Fits(st.current, paragraph, chunk_size)
             THEN PackParagraphs(rest,
                      [st EXCEPT !.current = IF st.current /= <<>>
                                             THEN st.current \o <<"\n", "\n">> \o paragraph
                                             ELSE paragraph],
                      chunk_size, filename, encoder)
             ELSE IF Len(paragraph) > chunk_size
             THEN PackParagraphs(rest,
                      PackSentences(SplitSentences(paragraph, <<>>),
                          [chunks |-> flushed, current |-> <<>>],
                          chunk_size, filename, encoder),
                      chunk_size, filename, encoder)
             ELSE PackParagraphs(rest, [chunks |-> flushed, current |-> paragraph],
                      chunk_size, filename, encoder)

\* split_text with use_markdown false
SplitParagraphMode(text, filename, chunk_size, encoder) ==
    IF Strip(text) = <<>> THEN <<>>
    ELSE LET st == PackParagraphs(SplitParagraphs(text),
                       [chunks |-> <<>>, current |-> <<>>],
                       chunk_size, filename, encoder)
         IN  IF st.current /= <<>>
             THEN Append(st.chunks, ParagraphChunk(st.current, filename, encoder))
             ELSE st.chunks

\* text.split('\n')
RECURSIVE SplitLines(_, _)
SplitLines(t, line) ==
    IF t = <<>> THEN <<line>>
    ELSE IF Head(t) = "\n" THEN <<line>> \o SplitLines(Tail(t), <<>>)
    ELSE SplitLines(Tail(t), Append(line, Head(t)))

\* line.split(): the words between runs of whitespace
RECURSIVE Words(_, _)
Words(t, word) ==
    IF t = <<>> THEN (IF word = <<>> THEN <<>> ELSE <<word>>)
    ELSE IF IsSpace(Head(t))
    THEN (IF word = <<>> THEN <<>> ELSE <<word>>) \o Words(Tail(t), <<>>)
    ELSE Words(Tail(t), Append(word, Head(t)))

\* the marker of a heading of the given level: "# ", "## ", ...
Marker(level) == [i \in 1..level |-> "#"] \o <<" ">>

\* ^#{level} (.+) matches the line
HasMarker(line, level) ==
    /\ Len(line) > level + 1
    /\ SubSeq(line, 1, level + 1) = Marker(level)

\* one re.sub of text_to_markdown over the lines of the text: a heading of
\* the level is followed by a line that repeats its text
RECURSIVE DuplicateHeaders(_, _)
DuplicateHeaders(lines, level) ==
    IF lines = <<>> THEN <<>>
    ELSE (IF HasMarker(Head(lines), level)
          THEN <<Head(lines), SubSeq(Head(lines), level + 2, Len(Head(lines)))>>
          ELSE <<Head(lines)>>) \o DuplicateHeaders(Tail(lines), level)

\* text_to_markdown: the headings of levels 2, 3 and 4 are duplicated, in
\* this order
text_to_markdown(text) ==
    IF Strip(text) = <<>> THEN text
    ELSE Join(DuplicateHeaders(DuplicateHeaders(DuplicateHeaders(
                  SplitLines(text, <<>>), 2), 3), 4), <<"\n">>)

HeaderLevels == 1..4

\* the level of the first header pattern that matches the stripped line, 0
\* if none does
HeaderLevel(line) ==
    IF \E k \in HeaderLevels : HasMarker(line, k)
    THEN CHOOSE k \in HeaderLevels : HasMarker(line, k)
    ELSE 0

\* match.group(1).strip()
HeaderText(line) == Strip(SubSeq(line, HeaderLevel(line) + 2, Len(line)))

\* current_header before any heading: the source's word for "document",
\* written here in ASCII
DefaultHeader == <<"D", "o", "c">>

\* ' -> '.join(header_stack)
HeaderPath(header_stack) == Join(header_stack, <<" ", "-", ">", " ">>)

\* the chunk dictionary of structure-aware mode
HeaderChunk(content, st, filename, encoder) ==
    [content |-> content,
     metadata |-> [source |-> filename,
                   header |-> st.current_header,
                   header_path |-> HeaderPath(st.header_stack),
                   document_title |-> st.document_title],
     tokens |-> count_tokens(ToRuns(content), encoder)]

\* The loop's state is the locals chunks, current_chunk, current_header,
\* document_title and header_stack.  Two more fields follow the headings
\* without taking part in the result: open holds the headings whose section
\* the current line is in, each with its level, and ancestors holds, for
\* every chunk appended, the headings that were open at that moment.
InitialScan(filename) ==
    [chunks |-> <<>>, current_chunk |-> <<>>, current_header |-> DefaultHeader,
     document_title |-> filename, header_stack |-> <<DefaultHeader>>,
     open |-> <<>>, ancestors |-> <<>>]

\* chunks.append(...) of the stripped join of the lines, if it is not empty
Flush(st, lines, filename, encoder) ==
    LET chunk_content == Strip(Join(lines, <<"\n">>)) IN
    IF lines /= <<>> /\ chunk_content /= <<>>
    THEN [st EXCEPT !.chunks = Append(@, HeaderChunk(chunk_content, st, filename, encoder)),
                    !.ancestors = Append(@, st.open)]
    ELSE st

\* header_stack[:n]
Prefix(stack, n) == SubSeq(stack, 1, Min(n, Len(stack)))

\* the headings still open once a heading of the level begins
Enclosing(open, level) == SelectSeq(open, LAMBDA h : h.level < level)

OnHeader_TagsWithNewHeader(st, line, filename, encoder) ==
    LET level == HeaderLevel(line)
        header_text == HeaderText(line)
        updated == [st EXCEPT
                       !.current_header = header_text,
                       !.document_title = IF level = 1 THEN header_text ELSE @,
                       !.header_stack = IF level = 1 THEN <<header_text>>
                                        ELSE Append(Prefix(@, level - 1), header_text)]
        flushed == Flush(updated, st.current_chunk, filename, encoder)
    IN  [flushed EXCEPT
            !.current_chunk = <<line>>,
            !.open = Append(Enclosing(@, level),
                            [level |-> level, text |-> header_text])]

OnHeader_NeverTruncates(st, line, filename, encoder) ==
    LET level == HeaderLevel(line)
        header_text == HeaderText(line)
        flushed == Flush(st, st.current_chunk, filename, encoder)
    IN  [flushed EXCEPT
            !.current_chunk = <<line>>,
            !.current_header = header_text,
            !.document_title = IF level = 1 THEN header_text ELSE @,
            !.header_stack = Append(@, header_text),
            !.open = Append(Enclosing(@, level),
                            [level |-> level, text |-> header_text])]

\* the branch of the loop for a heading line
OnHeader(st, line, filename, encoder) ==
    LET level == HeaderLevel(line)
        header_text == HeaderText(line)
        flushed == Flush(st, st.current_chunk, filename, encoder)
    IN  [flushed EXCEPT
            !.current_chunk = <<line>>,
            !.current_header = header_text,
            !.document_title = IF level = 1 THEN header_text ELSE @,
            !.header_stack = IF level = 1 THEN <<header_text>>
                             ELSE Append(Prefix(@, level - 1), header_text),
            !.open = Append(Enclosing(@, level),
                            [level |-> level, text |-> header_text])]

OnBody_KeepsFlushedLines(st, line, chunk_size, filename, encoder) ==
    LET current_chunk == Append(st.current_chunk, line)
        current_content == Join(current_chunk, <<"\n">>)
        words == Words(current_chunk[1], <<>>)
        half_point == Len(words) \div 2
        first_half == Join(SubSeq(words, 1, half_point), <<" ">>)
    IN  IF count_tokens(ToRuns(current_content), encoder) <= chunk_size
        THEN [st EXCEPT !.current_chunk = current_chunk]
        ELSE IF Len(current_chunk) > 1
        THEN [Flush(st, SubSeq(current_chunk, 1, Len(current_chunk) - 1),
                    filename, encoder)
                 EXCEPT !.current_chunk = current_chunk]
        ELSE [Flush(st, <<first_half>>, filename, encoder)
                 EXCEPT !.current_chunk = current_chunk]

\* the branch of the loop for any other line that is not blank
OnBody(st, line, chunk_size, filename, encoder) ==
    LET current_chunk == Append(st.current_chunk, line)
        current_content == Join(current_chunk, <<"\n">>)
        words == Words(current_chunk[1], <<>>)
        half_point == Len(words) \div 2
        first_half == Join(SubSeq(words, 1, half_point), <<" ">>)
        second_half == Join(SubSeq(words, half_point + 1, Len(words)), <<" ">>)
    IN  IF count_tokens(ToRuns(current_content), encoder) <= chunk_size
        THEN [st EXCEPT !.current_chunk = current_chunk]
        ELSE IF Len(current_chunk) > 1
        THEN [Flush(st, SubSeq(current_chunk, 1, Len(current_chunk) - 1),
                    filename, encoder)
                 EXCEPT !.current_chunk = <<current_chunk[Len(current_chunk)]>>]
        ELSE [Flush(st, <<first_half>>, filename, encoder)
                 EXCEPT !.current_chunk = <<second_half>>]

\* the loop of split_text_by_markdown_headers over the lines
RECURSIVE ScanLines(_, _, _, _, _)
ScanLines(lines, st, chunk_size, filename, encoder) ==
    IF lines = <<>> THEN st
    ELSE LET line == Strip(Head(lines))
             next == IF line = <<>>
                     THEN (IF st.current_chunk /= <<>>
                           THEN [st EXCEPT !.current_chunk = Append(@, <<>>)]
                           ELSE st)
                     ELSE IF HeaderLevel(line) > 0
                     THEN OnHeader(st, line, filename, encoder)
                     ELSE OnBody(st, line, chunk_size, filename, encoder)
         IN  ScanLines(Tail(lines), next, chunk_size, filename, encoder)

\* the state of split_text_by_markdown_headers when it returns
ScanText(text, filename, use_markdown, chunk_size, encoder) ==
    IF Strip(text) = <<>> THEN InitialScan(filename)
    ELSE LET md == IF use_markdown THEN text_to_markdown(text) ELSE text
             st == ScanLines(SplitLines(md, <<>>), InitialScan(filename),
                             chunk_size, filename, encoder)
         IN  Flush(st, st.current_chunk, filename, encoder)

\* split_text_by_markdown_headers
split_text_by_markdown_headers(text, filename, use_markdown, chunk_size, encoder) ==
    ScanText(text, filename, use_markdown, chunk_size, encoder).chunks

\* split_text: structure-aware mode when use_markdown is set, paragraph mode
\* otherwise
split_text(text, filename, use_markdown, chunk_size, encoder) ==
    IF use_markdown
    THEN split_text_by_markdown_headers(text, filename, use_markdown, chunk_size, encoder)
    ELSE SplitParagraphMode(text, filename, chunk_size, encoder)

\* ------------------------------------------------- segmenter, as a machine
\* The documents handed to the segmenter: every plain text up to MaxTextLen
\* characters, and every structured text of up to MaxLines lines.
Alphabet == {"a", " ", "\n", "."}

PlainTexts == UNION {[1..n -> Alphabet] : n \in 0..MaxTextLen}

LinePool ==
    {<<"#", " ", "A">>, <<"#", "#", " ", "B">>, <<"#", "#", "#", " ", "C">>,
     <<"#", "#", "#", "#", " ", "D">>, <<"x">>,
     <<"x", "x", "x", " ", "y", "y", "y", "y">>, <<>>}

StructuredTexts ==
    {Join(lines, <<"\n">>) : lines \in UNION {[1..n -> LinePool] : n \in 1..MaxLines}}

FileName == <<"f">>

\* chunk_size counts characters in paragraph mode and tokens in
\* structure-aware mode
ChunkSizes(use_markdown) == IF use_markdown THEN 1..MaxTokens ELSE 1..MaxChunkSize

InputTexts(use_markdown) == IF use_markdown THEN StructuredTexts ELSE PlainTexts

\* DocumentProcessor(chunk_size).split_text(text, filename, use_markdown)
SplitCall ==
    /\ ret = NoRet
    /\ \E use_markdown \in BOOLEAN, encoder \in Encoders :
          \E text \in InputTexts(use_markdown), chunk_size \in ChunkSizes(use_markdown) :
             ret' = [op |-> "split_text", text |-> text, use_markdown |-> use_markdown,
                     chunk_size |-> chunk_size, encoder |-> encoder,
                     chunks |-> split_text(text, FileName, use_markdown,
                                           chunk_size, encoder)]
    /\ UnchangedKB
    /\ UNCHANGED <<config_model, files, faults, assistant, saved>>

\* DocumentProcessor().count_tokens(text)
CountCall ==
    /\ ret = NoRet
    /\ \E text \in PlainTexts \cup StructuredTexts, encoder \in Encoders :
          ret' = [op |-> "count_tokens", text |-> text, encoder |-> encoder,
                  tokens |-> count_tokens(ToRuns(text), encoder)]
    /\ UnchangedKB
    /\ UNCHANGED <<config_model, files, faults, assistant, saved>>

SegNext ==
    \/ Return
    \/ SplitCall
    \/ CountCall

SegSpec == Init /\ [][SegNext]_vars

\* ------------------------------------------------------ corpus ingestion
\* What the scan of the data directory can find.  A file is given by its
\* name, by what reading and segmenting it does ("ok", or the point where it
\* raises) and by the chunks split_text returns for it when nothing raises.
DataFiles ==
    {[name |-> "b.txt", outcome |-> "ok", chunks |-> <<MkChunk(TextLimit, "b.txt")>>],
     [name |-> "c.txt", outcome |-> "ok",
      chunks |-> <<MkChunk(TextLong, "c.txt"), MkChunk(TextLimit, "c.txt")>>],
     [name |-> "e.txt", outcome |-> "ok", chunks |-> <<>>],
     [name |-> "u.txt", outcome |-> "read_raises", chunks |-> <<>>],
     [name |-> "s.pdf", outcome |-> "split_raises", chunks |-> <<>>]}

\* the files in the order the two loops visit them
Listings == UNION {[1..n -> DataFiles] : n \in 0..MaxFiles}

\* all_documents.extend(chunks) over the files, in order
RECURSIVE Extend(_, _)
Extend(all_documents, found) ==
    IF found = <<>> THEN all_documents
    ELSE Extend(IF Head(found).outcome = "ok"
                THEN all_documents \o Head(found).chunks
                ELSE all_documents,
                Tail(found))

CollectDocuments_NoCatch(found) ==
    IF \E i \in 1..Len(found) : found[i].outcome /= "ok"
    THEN LET first == CHOOSE i \in 1..Len(found) :
                         /\ found[i].outcome /= "ok"
                         /\ \A j \in 1..(i - 1) : found[j].outcome = "ok"
         IN  [raised |-> found[first].outcome, all_documents |-> <<>>]
    ELSE [raised |-> "", all_documents |-> Extend(<<>>, found)]

\* the scan of build_knowledge_base: each file is read and segmented inside
\* try / except Exception, and a file that raises is logged and passed over
CollectDocuments(found) ==
    [raised |-> "", all_documents |-> Extend(<<>>, found)]

\* Assistant.build_knowledge_base() over a data directory
IngestCall ==
    /\ ret = NoRet
    /\ \E dirExists \in BOOLEAN :
       \E found \in IF dirExists THEN Listings ELSE {<<>>} :
          LET c == CollectDocuments(found) IN
          \E oks \in Oks(c.all_documents), rs \in Rands(c.all_documents) :
             LET b == IF c.raised /= ""
                      THEN [raised |-> c.raised, kb |-> KB, embedCalls |-> 0]
                      ELSE build_knowledge_base(KB, dirExists, c.all_documents,
                                                oks, rs)
             IN  /\ SetKB(b.kb)
                 /\ ret' = [op |-> "build_knowledge_base", dirExists |-> dirExists,
                            found |-> found, all_documents |-> c.all_documents,
                            raised |-> b.raised, embedCalls |-> b.embedCalls]
    /\ saved' = NoSaved
    /\ UNCHANGED <<config_model, files, faults, assistant>>

IngestNext ==
    \/ Return
    \/ KBInit
    \/ IngestCall

IngestSpec == Init /\ [][IngestNext]_vars

\* ------------------------------------------------------------------- claims

\* C1: between operations, len(chunks) == len(metadatas) == number of vectors
\* in the index (an unbuilt index counts as 0), whatever sequence of build,
\* save, load, rebuild and startup has run, failed ones included.
C1_SizesAgree ==
    /\ Len(chunks) = Len(metadatas)
    /\ Len(chunks) = IndexSize(index)

\* the vector get_embedding can have produced for a text: the provider's
\* vector or the fallback
IsEmbeddingOf(v, text) == v = EmbedVal(text) \/ v \in RandVals

\* C2: once a build has succeeded, in every later state position i of
\* chunks, metadatas and the index is one unit: metadatas[i] is
\* chunks[i].metadata and vector i is the vector embedded for
\* chunks[i].content; every search result pairs the content and the metadata
\* of the chunk whose vector was matched.
C2_PositionsAligned ==
    /\ index.built =>
          /\ Len(metadatas) = Len(chunks)
          /\ Len(index.vecs) = Len(chunks)
          /\ \A i \in 1..Len(chunks) :
                /\ metadatas[i] = chunks[i].metadata
                /\ IsEmbeddingOf(index.vecs[i], chunks[i].content)
    /\ (ret.op = "search" /\ ret.raised = "") =>
          \A j \in 1..Len(ret.results) :
             /\ ret.labels[j] >= 0
             /\ ret.labels[j] < Len(chunks)
             /\ ret.results[j].content = chunks[ret.labels[j] + 1].content
             /\ ret.results[j].metadata = chunks[ret.labels[j] + 1].metadata
             /\ IsEmbeddingOf(index.vecs[ret.labels[j] + 1], ret.results[j].content)

\* C3: an ask that goes on to read the index and the arrays, at any point of
\* a rebuild, reads an index, chunks and metadatas written by the same
\* assignment: all old or all new.
C3_OneSnapshot ==
    (ret.op = "ask" /\ ret.embedCalls > 0) =>
        /\ ret.view.index = ret.view.chunks
        /\ ret.view.index = ret.view.metadatas

\* C4: save followed by load on a fresh KnowledgeBase, the binary sidecar
\* present, returns true and restores chunks, metadatas and embedding_model
\* as they were saved, with as many vectors in the index.
C4_RoundTrip ==
    (ret.op = "load" /\ ret.fresh /\ saved.valid /\ ret.bin) =>
        /\ ret.result
        /\ chunks = saved.chunks
        /\ metadatas = saved.metadatas
        /\ embedding_model = saved.embedding_model
        /\ IndexSize(index) = saved.size

C4_Witness ==
    /\ ret.op = "load" /\ ret.fresh /\ saved.valid /\ ret.bin /\ ret.result
    /\ Len(chunks) = 2
    /\ chunks[1] /= chunks[2]

\* C5: load with the index file and the diagnostic JSON but no binary
\* sidecar returns true; a chunk saved with more than 200 characters comes
\* back as its first 200 characters plus "...", a shorter one unchanged;
\* number, order, token counts and metadata are those saved.
C5_DegradedRoundTrip ==
    (ret.op = "load" /\ saved.valid /\ saved.jsonOk /\ ret.index /\ ~ret.bin /\ ret.json) =>
        /\ ret.result
        /\ Len(chunks) = Len(saved.chunks)
        /\ Len(metadatas) = Len(saved.chunks)
        /\ \A i \in 1..Len(saved.chunks) :
              LET orig == saved.chunks[i] IN
              /\ chunks[i].content =
                    IF TLen(orig.content) > 200
                    THEN TCat(TTake(orig.content, 200), Rep(".", 3))
                    ELSE orig.content
              /\ chunks[i].tokens = orig.tokens
              /\ chunks[i].metadata = orig.metadata
              /\ metadatas[i] = orig.metadata

C5_Witness ==
    /\ ret.op = "load" /\ saved.valid /\ saved.jsonOk /\ ret.index /\ ~ret.bin /\ ret.json
    /\ ret.result
    /\ Len(chunks) = 2
    /\ TLen(saved.chunks[1].content) > 200
    /\ TLen(chunks[1].content) = 203
    /\ TLen(saved.chunks[2].content) = 200

\* C6: load returns false when the index file does not exist, and true
\* whenever the index file is readable and at least one of the two metadata
\* sidecars is readable.
C6_LoadResult ==
    ret.op = "load" =>
        /\ ~files.index.exists => ~ret.result
        /\ (ret.index /\ (ret.binOk \/ ret.json)) => ret.result

\* C7: build with an empty document list raises EmptyCorpus, embeds nothing
\* and leaves index, chunks and metadatas as they were.
C7_BuildEmpty ==
    [][(ret'.op = "build" /\ ret'.n = 0 /\ ret' /= ret) =>
          /\ ret'.raised = "EmptyCorpus"
          /\ ret'.embedCalls = 0
          /\ index' = index
          /\ chunks' = chunks
          /\ metadatas' = metadatas]_vars

C7_Witness ==
    /\ ret.op = "build" /\ ret.n = 0 /\ ret.raised = "EmptyCorpus"
    /\ index.built
    /\ Len(chunks) = 2

Sorted(results) ==
    \A i \in 1..Len(results) - 1 : results[i].distance <= results[i + 1].distance

\* C8: on a built KnowledgeBase of corpusSize chunks, search(query, k) with
\* k >= 1 returns min(k, corpusSize) results in non-decreasing distance.
C8_SearchCount ==
    (ret.op = "search" /\ index.built /\ Len(chunks) >= 1) =>
        /\ ret.raised = ""
        /\ Len(ret.results) = Min(ret.n, Len(chunks))
        /\ Sorted(ret.results)

\* C9: ask on an unbuilt or empty KnowledgeBase returns the no-documents
\* answer with error "no_documents", 0 tokens and no sources, and calls
\* neither the language model nor the embedding provider.
C9_AskNoDocuments ==
    (ret.op = "ask" /\ (~index.built \/ Len(chunks) = 0)) =>
        /\ ret.result = [answer |-> NoDocumentsAnswer, sources |-> <<>>,
                         tokens_used |-> 0, error |-> "no_documents"]
        /\ ret.llmCalls = 0
        /\ ret.embedCalls = 0

C9_Witness ==
    /\ ret.op = "ask"
    /\ index.built
    /\ Len(chunks) = 0
    /\ ret.result.error = "no_documents"

\* C10: save on a KnowledgeBase whose index was never built or loaded raises
\* NotBuilt and creates or modifies none of the four files.
C10_SaveNotBuilt ==
    [][(ret'.op = "save" /\ ret' /= ret /\ ~index.built) =>
          /\ ret'.raised = "NotBuilt"
          /\ files' = files]_vars

C10_Witness ==
    /\ ret.op = "save" /\ ret.raised = "NotBuilt"
    /\ ~index.built
    /\ files.index.exists
    /\ Len(chunks) > 0

\* C11: no exception leaves ask; when the search or the language-model call
\* fails, in whatever state the KnowledgeBase is, ask returns the generic-error
\* answer with 0 tokens, no sources and error naming the failure.
C11_AskNeverRaises ==
    ret.op = "ask" =>
        /\ ret.raised = ""
        /\ (ret.searchRaised /= "" \/ ret.llm = "error") =>
              /\ ret.result.answer = ProcessingErrorAnswer
              /\ ret.result.tokens_used = 0
              /\ ret.result.sources = <<>>
              /\ ret.result.error /= ""
              /\ ret.result.error /= "no_documents"
              /\ ret.searchRaised /= "" => ret.result.error = ret.searchRaised

C11_Witness ==
    /\ ret.op = "ask"
    /\ ret.searchRaised = "AssertionError"
    /\ gens /= SameSnapshot
    /\ ret.result.error = "AssertionError"

\* C12: on a successful ask, sources has one entry per search result in the
\* order of the results (ascending distance), each with the result's
\* metadata source, relevance_score = 1 - distance and a preview that starts
\* as the result's content does; answer is the model's text and tokens_used
\* the usage it reported, 0 when it reported none.
C12_AskSuccess ==
    (ret.op = "ask" /\ ret.llm \in {"usage", "no_usage"}) =>
        /\ "error" \notin DOMAIN ret.result
        /\ ret.result.answer = "model_text"
        /\ ret.result.tokens_used = (IF ret.llm = "usage" THEN 42 ELSE 0)
        /\ Sorted(ret.results)
        /\ Len(ret.result.sources) = Len(ret.results)
        /\ \A i \in 1..Len(ret.results) :
              /\ ret.result.sources[i].source = ret.results[i].metadata.source
              /\ ret.result.sources[i].relevance_score = 1 - ret.results[i].distance
              /\ TTake(ret.result.sources[i].content_preview, 200)
                    = TTake(ret.results[i].content, 200)

C12_Witness ==
    /\ ret.op = "ask"
    /\ ret.llm = "usage"
    /\ Len(ret.result.sources) = 2
    /\ ret.results[1].distance < ret.results[2].distance
    /\ ret.result.sources[1].relevance_score > ret.result.sources[2].relevance_score
    /\ gens = SameSnapshot

\* C13: a rebuild that returns reports "success" exactly when it built the
\* KnowledgeBase from the documents it found in this call and saved it, and
\* "error" otherwise; documents_count is the number of chunks of the
\* KnowledgeBase it leaves.
C13_RebuildStatus ==
    (ret.op = "rebuild" /\ ret.raised = "") =>
        /\ ret.status \in {"success", "error"}
        /\ ret.status = "success" <=> (ret.built /\ ret.saved)
        /\ ret.documents_count = Len(chunks)

\* C14: a startup that finds the index file and loads it leaves the loaded
\* KnowledgeBase and neither embeds nor saves; a startup that does not load
\* leaves a KnowledgeBase built from the corpus in this startup and saved;
\* the KnowledgeBase of a running assistant is always the product of one
\* whole load or build, never a mix of two.
C14_Lifecycle ==
    /\ (ret.op = "startup" /\ ret.status = "loaded") =>
          /\ ret.embedCalls = 0
          /\ ~ret.built /\ ~ret.saved
          /\ IndexSize(index) = Len(files.index.vecs)
          /\ chunks = (IF files.bin.exists THEN files.bin.chunks
                       ELSE ChunksFromJson(files.json))
    /\ (ret.op = "startup" /\ ret.raised = "" /\ ret.status /= "loaded") =>
          /\ index.built => ret.built
          /\ ret.built => ret.saved
    /\ assistant = "ready" => gens = SameSnapshot

\* C15 (as stated): paragraph mode returns exactly one chunk for every text
\* whose character length is less than chunk_size.
C15_OneChunkAnyText ==
    (ret.op = "split_text" /\ ~ret.use_markdown /\ Len(ret.text) < ret.chunk_size)
        => Len(ret.chunks) = 1

\* C15: paragraph mode returns exactly one chunk for every text that has a
\* character other than whitespace and whose character length is less than
\* chunk_size, whatever the number of its paragraphs.
C15_OneChunk ==
    (/\ ret.op = "split_text"
     /\ ~ret.use_markdown
     /\ Strip(ret.text) /= <<>>
     /\ Len(ret.text) < ret.chunk_size)
        => Len(ret.chunks) = 1

C15_Witness ==
    /\ ret.op = "split_text"
    /\ ~ret.use_markdown
    /\ Len(ret.text) < ret.chunk_size
    /\ Len(SplitParagraphs(ret.text)) = 2
    /\ \A i \in 1..2 : Strip(SplitParagraphs(ret.text)[i]) /= <<>>
    /\ Len(ret.chunks) = 1

\* the characters of a text that are not whitespace, in order
NonSpace(t) == SelectSeq(t, LAMBDA ch : ~IsSpace(ch))

\* the contents of the chunks, one after the other
RECURSIVE Contents(_)
Contents(chs) == IF chs = <<>> THEN <<>> ELSE Head(chs).content \o Contents(Tail(chs))

\* every element of s occurs in t, in the order of s
RECURSIVE IsSubsequence(_, _)
IsSubsequence(s, t) ==
    IF s = <<>> THEN TRUE
    ELSE IF t = <<>> THEN FALSE
    ELSE IF Head(s) = Head(t) THEN IsSubsequence(Tail(s), Tail(t))
    ELSE IsSubsequence(s, Tail(t))

\* C16: in both modes, for every non-empty text, no chunk has empty content
\* and the contents of the chunks, in order and without whitespace, contain
\* every non-whitespace character of the text in the order of the text.
C16_NothingDropped ==
    (ret.op = "split_text" /\ ret.text /= <<>>)
        => /\ \A i \in 1..Len(ret.chunks) : ret.chunks[i].content /= <<>>
           /\ IsSubsequence(NonSpace(ret.text), NonSpace(Contents(ret.chunks)))

\* the texts of the headings, outermost first
Texts(headings) == [i \in 1..Len(headings) |-> headings[i].text]

\* C17: in structure-aware mode the header_path of a chunk under a document
\* title is the " -> "-joined list of the headings its content lies under,
\* from the level-1 heading down to the immediate heading.
C17_HeaderPath ==
    (ret.op = "split_text" /\ ret.use_markdown)
        => LET ancestors == ScanText(ret.text, FileName, TRUE, ret.chunk_size,
                                     ret.encoder).ancestors
           IN  \A i \in 1..Len(ret.chunks) :
                  (ancestors[i] /= <<>> /\ ancestors[i][1].level = 1)
                      => ret.chunks[i].metadata.header_path
                             = HeaderPath(Texts(ancestors[i]))

\* no line of the text is a heading
HeadingFree(text) ==
    \A i \in 1..Len(SplitLines(text, <<>>)) :
        HeaderLevel(Strip(SplitLines(text, <<>>)[i])) = 0

\* C18: when the tokenizer is unavailable count_tokens(text) is the length of
\* the text divided by 4, rounded down, for every text; the tokens of every
\* chunk are that value; and that value gates the splitting of
\* structure-aware mode: a text of two or more words without headings stays
\* one chunk exactly when its stripped length divided by 4, rounded down, is
\* at most chunk_size.
C18_FallbackExact ==
    /\ (ret.op = "count_tokens" /\ ret.encoder = "unavailable")
           => ret.tokens = Len(ret.text) \div 4
    /\ (ret.op = "split_text" /\ ret.encoder = "unavailable")
           => \A i \in 1..Len(ret.chunks) :
                  ret.chunks[i].tokens = Len(ret.chunks[i].content) \div 4
    /\ (/\ ret.op = "split_text"
        /\ ret.encoder = "unavailable"
        /\ ret.use_markdown
        /\ HeadingFree(ret.text)
        /\ Len(Words(ret.text, <<>>)) >= 2)
           => (Len(ret.chunks) = 1 <=> Len(Strip(ret.text)) \div 4 <= ret.chunk_size)

C18_Witness ==
    /\ ret.op = "split_text"
    /\ ret.encoder = "unavailable"
    /\ ret.use_markdown
    /\ HeadingFree(ret.text)
    /\ Len(Strip(ret.text)) \div 4 = ret.chunk_size + 1
    /\ Len(ret.chunks) = 2
    /\ \E i \in 1..2 : ret.chunks[i].tokens = 1

\* C19: every content preview has at most 200 characters: the
\* content_preview of each chunk in the JSON sidecar written by save, and
\* the content_preview of each source returned by ask.
C19_PreviewBound ==
    /\ (files.json.exists /\ files.json.ok)
           => \A i \in 1..Len(files.json.chunks) :
                  TLen(files.json.chunks[i].content_preview) <= PreviewLen
    /\ (ret.op = "ask" /\ "sources" \in DOMAIN ret.result)
           => \A i \in 1..Len(ret.result.sources) :
                  TLen(ret.result.sources[i].content_preview) <= PreviewLen

\* C20: a failed embedding call is never propagated and is answered with a
\* vector of the dimensionality of the configured model: a build of one or
\* more chunks completes with one vector per chunk, whichever of its
\* embedding calls fail, and a search over a built index with chunks returns
\* results even when the embedding of the query fails.
C20_EmbedFallback ==
    /\ (ret.op = "build" /\ ret.n > 0)
           => /\ ret.raised = ""
              /\ index.built
              /\ index.d = ProviderDim(embedding_model)
              /\ IndexSize(index) = ret.n
              /\ Len(chunks) = ret.n
    /\ (ret.op = "search" /\ index.built /\ Len(chunks) > 0 /\ gens = SameSnapshot)
           => /\ ret.raised = ""
              /\ ret.results /= <<>>

\* the chunks collected from the files before position i
RECURSIVE ChunksBefore(_, _)
ChunksBefore(found, i) ==
    IF i <= 1 THEN 0
    ELSE ChunksBefore(found, i - 1)
             + (IF found[i - 1].outcome = "ok" THEN Len(found[i - 1].chunks) ELSE 0)

\* C21: a file whose reading or segmenting raises is passed over: the failure
\* does not leave build_knowledge_base, and the chunks of every other file
\* found are collected in the order of the scan and handed to the build.
C21_SkipFailedFiles ==
    (ret.op = "build_knowledge_base") =>
        /\ ret.raised \notin {"read_raises", "split_raises"}
        /\ Len(ret.all_documents) = ChunksBefore(ret.found, Len(ret.found) + 1)
        /\ \A i \in 1..Len(ret.found) :
              ret.found[i].outcome = "ok" =>
                 \A j \in 1..Len(ret.found[i].chunks) :
                    ret.all_documents[ChunksBefore(ret.found, i) + j]
                        = ret.found[i].chunks[j]
        /\ ret.all_documents /= <<>> => chunks = ret.all_documents

C21_Witness ==
    /\ ret.op = "build_knowledge_base"
    /\ Len(ret.found) = 3
    /\ ret.found[1].name = "c.txt"
    /\ ret.found[2].outcome = "read_raises"
    /\ ret.found[3].name = "b.txt"
    /\ ret.raised = ""
    /\ Len(chunks) = 3
    /\ IndexSize(index) = 3

\* the lines split_text_by_markdown_headers scans for the text
ScannedLines(text, use_markdown) ==
    SplitLines(IF use_markdown THEN text_to_markdown(text) ELSE text, <<>>)

\* the locals of the scan before its first line and after each line
RECURSIVE ScanStates(_, _, _, _)
ScanStates(lines, st, chunk_size, encoder) ==
    IF lines = <<>> THEN <<st>>
    ELSE <<st>> \o ScanStates(Tail(lines),
                       ScanLines(<<Head(lines)>>, st, chunk_size, FileName, encoder),
                       chunk_size, encoder)

\* C22: at every point of the scan header_stack has at most 4 entries; a
\* level-1 heading makes it [heading text] and makes the heading text the
\* document_title; a heading of level k in 2..4 makes it its first k-1
\* entries (all of them if there are fewer) followed by the heading text and
\* leaves document_title alone; no other line changes either; and every
\* chunk carries the text of the last level-1 heading before it as
\* document_title.
C22_HeadingStack ==
    (ret.op = "split_text" /\ ret.use_markdown /\ Strip(ret.text) /= <<>>) =>
        LET lines == ScannedLines(ret.text, TRUE)
            S == ScanStates(lines, InitialScan(FileName), ret.chunk_size, ret.encoder)
            ancestors == ScanText(ret.text, FileName, TRUE, ret.chunk_size,
                                  ret.encoder).ancestors
        IN  /\ \A n \in 1..Len(S) : Len(S[n].header_stack) <= 4
            /\ \A n \in 1..Len(lines) :
                  LET line == Strip(lines[n])
                      k == HeaderLevel(line)
                      before == S[n].header_stack
                  IN  /\ k = 1 => /\ S[n + 1].header_stack = <<HeaderText(line)>>
                                  /\ S[n + 1].document_title = HeaderText(line)
                      /\ k > 1 => /\ S[n + 1].header_stack
                                        = SubSeq(before, 1, Min(k - 1, Len(before)))
                                             \o <<HeaderText(line)>>
                                  /\ S[n + 1].document_title = S[n].document_title
                      /\ k = 0 => /\ S[n + 1].header_stack = before
                                  /\ S[n + 1].document_title = S[n].document_title
            /\ \A i \in 1..Len(ret.chunks) :
                  ret.chunks[i].metadata.document_title
                      = IF ancestors[i] /= <<>> /\ ancestors[i][1].level = 1
                        THEN ancestors[i][1].text
                        ELSE FileName

C22_Witness ==
    /\ ret.op = "split_text"
    /\ ret.use_markdown
    /\ LET lines == ScannedLines(ret.text, TRUE)
           S == ScanStates(lines, InitialScan(FileName), ret.chunk_size, ret.encoder)
       IN  \E n \in 1..Len(lines) :
              /\ Len(S[n].header_stack) = 4
              /\ HeaderLevel(Strip(lines[n])) = 2
              /\ Len(S[n + 1].header_stack) = 2

\* C23: at a heading line the buffer, if it is not empty, becomes one chunk
\* whose header, header_path and document_title are those in effect before
\* the heading is applied, and an empty buffer gives no chunk; the buffer
\* then restarts as the heading line, and the next chunk appended begins
\* with that line.
C23_FlushAtHeading ==
    (ret.op = "split_text" /\ ret.use_markdown /\ Strip(ret.text) /= <<>>) =>
        LET lines == ScannedLines(ret.text, TRUE)
            S == ScanStates(lines, InitialScan(FileName), ret.chunk_size, ret.encoder)
        IN  \A n \in 1..Len(lines) :
               LET line == Strip(lines[n])
                   buffer == Strip(Join(S[n].current_chunk, <<"\n">>))
                   emitted == Len(S[n + 1].chunks)
               IN  HeaderLevel(line) > 0 =>
                      /\ buffer = <<>> => S[n + 1].chunks = S[n].chunks
                      /\ buffer /= <<>> =>
                            /\ emitted = Len(S[n].chunks) + 1
                            /\ SubSeq(S[n + 1].chunks, 1, emitted - 1) = S[n].chunks
                            /\ S[n + 1].chunks[emitted].content = buffer
                            /\ S[n + 1].chunks[emitted].metadata
                                  = [source |-> FileName,
                                     header |-> S[n].current_header,
                                     header_path |-> HeaderPath(S[n].header_stack),
                                     document_title |-> S[n].document_title]
                      /\ S[n + 1].current_chunk = <<line>>
                      /\ Len(ret.chunks) > emitted
                      /\ SubSeq(ret.chunks, 1, emitted) = S[n + 1].chunks
                      /\ SubSeq(ret.chunks[emitted + 1].content, 1, Len(line)) = line

C23_Witness ==
    /\ ret.op = "split_text"
    /\ ret.use_markdown
    /\ LET lines == ScannedLines(ret.text, TRUE)
           S == ScanStates(lines, InitialScan(FileName), ret.chunk_size, ret.encoder)
       IN  \E n \in 1..Len(lines) :
              /\ HeaderLevel(Strip(lines[n])) = 1
              /\ Len(S[n].current_chunk) > 1
              /\ Len(S[n].header_stack) > 1
              /\ Len(S[n + 1].chunks) = Len(S[n].chunks) + 1
              /\ S[n + 1].chunks[Len(S[n + 1].chunks)].metadata.header
                    /= HeaderText(Strip(lines[n]))

\* the buffer with the line appended is over the budget
Overflows(buffer, line, chunk_size, encoder) ==
    count_tokens(ToRuns(Join(Append(buffer, line), <<"\n">>)), encoder) > chunk_size

\* C24: when a line that is not a heading takes the buffer over the budget,
\* a buffer of more than one line is flushed as one chunk without its last
\* line and restarts as that line, and a buffer of one line is split once at
\* len(words) // 2, its first half flushed if it is not empty and its second
\* half kept as the buffer; a line that fits is only appended; and the words
\* of the chunks, in order, are the words of the scanned lines, none lost
\* and none twice.
C24_OverflowSplit ==
    (ret.op = "split_text" /\ ret.use_markdown /\ Strip(ret.text) /= <<>>) =>
        LET lines == ScannedLines(ret.text, TRUE)
            S == ScanStates(lines, InitialScan(FileName), ret.chunk_size, ret.encoder)
        IN  /\ \A n \in 1..Len(lines) :
                  LET line == Strip(lines[n])
                      buffer == S[n].current_chunk
                      words == Words(line, <<>>)
                      half == Len(words) \div 2
                      emitted == Len(S[n + 1].chunks)
                  IN  (line /= <<>> /\ HeaderLevel(line) = 0) =>
                         IF ~Overflows(buffer, line, ret.chunk_size, ret.encoder)
                         THEN /\ S[n + 1].current_chunk = Append(buffer, line)
                              /\ S[n + 1].chunks = S[n].chunks
                         ELSE IF buffer /= <<>>
                         THEN /\ S[n + 1].current_chunk = <<line>>
                              /\ emitted = Len(S[n].chunks) + 1
                              /\ SubSeq(S[n + 1].chunks, 1, emitted - 1) = S[n].chunks
                              /\ S[n + 1].chunks[emitted].content
                                    = Strip(Join(buffer, <<"\n">>))
                         ELSE /\ S[n + 1].current_chunk
                                    = <<Join(SubSeq(words, half + 1, Len(words)), <<" ">>)>>
                              /\ IF half = 0
                                 THEN S[n + 1].chunks = S[n].chunks
                                 ELSE /\ emitted = Len(S[n].chunks) + 1
                                      /\ SubSeq(S[n + 1].chunks, 1, emitted - 1)
                                            = S[n].chunks
                                      /\ S[n + 1].chunks[emitted].content
                                            = Join(SubSeq(words, 1, half), <<" ">>)
            /\ Words(Join([i \in 1..Len(ret.chunks) |-> ret.chunks[i].content],
                          <<"\n">>), <<>>)
                  = Words(Join(lines, <<"\n">>), <<>>)

C24_Witness ==
    /\ ret.op = "split_text"
    /\ ret.use_markdown
    /\ LET lines == ScannedLines(ret.text, TRUE)
           S == ScanStates(lines, InitialScan(FileName), ret.chunk_size, ret.encoder)
       IN  /\ \E n \in 1..Len(lines) :
                 /\ HeaderLevel(Strip(lines[n])) = 0
                 /\ S[n].current_chunk = <<>>
                 /\ Len(Words(lines[n], <<>>)) = 2
                 /\ Overflows(<<>>, Strip(lines[n]), ret.chunk_size, ret.encoder)
           /\ \E n \in 1..Len(lines) :
                 /\ Strip(lines[n]) /= <<>>
                 /\ HeaderLevel(Strip(lines[n])) = 0
                 /\ Len(S[n].current_chunk) > 1
                 /\ Overflows(S[n].current_chunk, Strip(lines[n]), ret.chunk_size,
                              ret.encoder)

\* C25: a failure on any of the four persisted files during load or save
\* does not raise and is reported to the caller as false.
C25_PersistenceFalse ==
    /\ (/\ ret.op = "load"
        /\ files.index.exists
        /\ \/ ~files.index.ok
           \/ files.bin.exists /\ ~files.bin.ok
           \/ ~files.bin.exists /\ files.json.exists /\ ~files.json.ok)
           => ret.result = FALSE
    /\ (ret.op = "save" /\ ret.io /= "none")
           => /\ ret.raised = ""
              /\ ret.result = FALSE

\* C26: a build of one or more chunks that raises leaves index, chunks and
\* metadatas as they were before the call.
C26_FailedBuildFrame ==
    [][(ret'.op = "build" /\ ret' /= ret /\ ret'.n > 0 /\ ret'.raised /= "") =>
          /\ index' = index
          /\ chunks' = chunks
          /\ metadatas' = metadatas]_vars

\* C27: a load that returns false leaves index, chunks, metadatas and
\* embedding_model as they were before the call.
C27_FailedLoadFrame ==
    [][(ret'.op = "load" /\ ret' /= ret /\ ret'.result = FALSE) =>
          /\ index' = index
          /\ chunks' = chunks
          /\ metadatas' = metadatas
          /\ embedding_model' = embedding_model]_vars

\* C28: search makes a result only of a position faiss matched: the
\* no-neighbour label -1 and any label outside 0..len(chunks)-1 give no
\* result and no IndexError, whatever the sizes of the index and of chunks.
C28_NoSentinelResult ==
    ret.op = "search" =>
        /\ ret.raised /= "IndexError"
        /\ Len(ret.results)
              = Cardinality({i \in 1..Len(ret.labels) :
                                /\ ret.labels[i] >= 0
                                /\ ret.labels[i] < Len(chunks)
                                /\ ret.labels[i] < IndexSize(index)})

\* C29: every result of ask_question has the keys the /api/ask handler
\* reads, so every question put to a running assistant is answered with
\* HTTP 200.
C29_AskKeys ==
    ret.op = "ask" =>
        /\ HandlerKeys \subseteq DOMAIN ret.result
        /\ ret.http = 200

\* the stripped sentences of the paragraphs of a text
SentencesOf(text) ==
    UNION {{Strip(SplitSentences(Strip(SplitParagraphs(text)[p]), <<>>)[q]) :
               q \in 1..Len(SplitSentences(Strip(SplitParagraphs(text)[p]), <<>>))} :
           p \in 1..Len(SplitParagraphs(text))}

\* C30: in paragraph mode a chunk is longer than chunk_size only if it is a
\* single sentence; a chunk packed from two or more paragraphs or sentences
\* has at most chunk_size characters.
C30_PackedWithinLimit ==
    (ret.op = "split_text" /\ ~ret.use_markdown) =>
        \A i \in 1..Len(ret.chunks) :
           Len(ret.chunks[i].content) > ret.chunk_size
               => ret.chunks[i].content \in SentencesOf(ret.text)

====
